---- MODULE Spec2Model ----
(***************************************************************************)
(* Model of the inference server in src/model-server/server.py: the        *)
(* IrisClassifier model object, the Prometheus metrics it updates and the  *)
(* /ready and /v2/models/{name}/infer handlers.                            *)
(*                                                                         *)
(* JSON values of a request are tagged tuples, so that a payload can be    *)
(* inspected the way numpy inspects a nested Python list:                  *)
(*   <<"n", i>>   a JSON number i                                          *)
(*   <<"x", t>>   a JSON number, written t, beyond the range of float32    *)
(*   <<"s", t>>   a JSON string t                                          *)
(*   <<"l", xs>>  a JSON array with the elements xs                        *)
(* Numbers are small integers; they and every logit computed from them are *)
(* exactly representable in float32.                                       *)
(*                                                                         *)
(* An infer call is split at its updates of the shared metrics: entry      *)
(* (readiness check, gauge increment), the try body up to the success      *)
(* count, the latency observation with the response, the except clause,    *)
(* and the finally clause.  The calls of different tasks interleave at     *)
(* these points, which covers the event loop (where one call runs from     *)
(* entry to exit without suspension) as well as a threaded dispatch; each  *)
(* Prometheus update is atomic.  The handlers can run at any point of      *)
(* IrisClassifier.load, as their readiness checks provide for.             *)
(***************************************************************************)
EXTENDS Integers, Sequences, FiniteSets, TLC

\* ---------------------------------------------------------------- bounds
\* Number of infer calls admitted in one behaviour.
MaxCalls == 2

\* Concurrently dispatched infer calls (one slot per task).
Calls == {"c1", "c2"}

\* ---------------------------------------------------- program constants
MODEL_NAME == "iris-classifier"
MODEL_VERSION == "v1.0.0"
CLASSES == <<"setosa", "versicolor", "virginica">>

\* np.random.randn(4, 3): rows of the weight matrix (features), columns (classes)
NumFeatures == 4
NumClasses == 3

\* ------------------------------------------------------- JSON payloads
Num(i) == <<"n", i>>
Big(t) == <<"x", t>>
Str(t) == <<"s", t>>
List(xs) == <<"l", xs>>

IsList(v) == v[1] = "l"
Items(v) == v[2]

\* float(t) for the strings used as payload elements: a numeric string is
\* converted, any other string raises ValueError.
NumericStrings == {"2"}
StrToFloat(t) == IF t = "2" THEN 2 ELSE 0

\* ---------------------------------------------------------- np.array
\* Exceptions are records [type, msg]; str(e) is msg.
Exc(type, msg) == [type |-> type, msg |-> msg]

\* Shape discovery of np.array(data, dtype=np.float32) on a nested list: a
\* list contributes its length as a dimension when all of its elements have
\* one and the same shape; scalars have the shape <<>>.  The result is
\* [ok, shape] or, for a ragged or mixed list, ok = FALSE.
RECURSIVE NpShape(_)
NpShape(v) ==
    IF ~IsList(v) THEN [ok |-> TRUE, shape |-> <<>>]
    ELSE LET xs == Items(v)
             sub == [i \in 1..Len(xs) |-> NpShape(xs[i])]
         IN  IF Len(xs) = 0 THEN [ok |-> TRUE, shape |-> <<0>>]
             ELSE IF /\ \A i \in 1..Len(xs) : sub[i].ok
                     /\ \A i \in 1..Len(xs) : sub[i].shape = sub[1].shape
                     /\ \A i \in 1..Len(xs) : IsList(xs[i]) = IsList(xs[1])
                  THEN [ok |-> TRUE, shape |-> <<Len(xs)>> \o sub[1].shape]
                  ELSE [ok |-> FALSE, shape |-> <<>>]

\* Row-major flattening of a nested list to its scalars.
RECURSIVE Leaves(_)
RECURSIVE LeavesOfSeq(_)
Leaves(v) == IF IsList(v) THEN LeavesOfSeq(Items(v)) ELSE <<v>>
LeavesOfSeq(xs) == IF xs = <<>> THEN <<>> ELSE Leaves(Head(xs)) \o LeavesOfSeq(Tail(xs))

\* float32 +inf: larger than every finite value of the model.
Inf == 1000000

\* Conversion of one scalar to float32.  A number beyond the float32 range
\* is converted to inf, without an exception.
IsNumeric(leaf) ==
    leaf[1] \in {"n", "x"} \/ (leaf[1] = "s" /\ leaf[2] \in NumericStrings)
ToFloat(leaf) ==
    IF leaf[1] = "n" THEN leaf[2]
    ELSE IF leaf[1] = "x" THEN Inf
    ELSE StrToFloat(leaf[2])

\* np.array(data, dtype=np.float32): an array [shape, flat] (flat holds the
\* elements in row-major order) or the ValueError numpy raises.
NpArray(data) ==
    LET sh == NpShape(data)
        lv == Leaves(data)
    IN  IF ~sh.ok
        THEN [ok |-> FALSE, exc |-> Exc("ValueError", "inhomogeneous shape")]
        ELSE IF \E i \in 1..Len(lv) : ~IsNumeric(lv[i])
        THEN [ok |-> FALSE,
              exc |-> Exc("ValueError", "could not convert string to float")]
        ELSE [ok |-> TRUE, shape |-> sh.shape,
              flat |-> [i \in 1..Len(lv) |-> ToFloat(lv[i])]]

\* ----------------------------------------------------- IrisClassifier
\* Weight matrices np.random.randn(4, 3) may produce, as integer rows (one
\* per feature) of NumClasses columns.  The second has equal columns 1 and 2.
WeightChoices ==
    { << <<1, 0, -1>>, <<0, 1, 0>>, <<-1, 0, 1>>, <<0, -1, 1>> >>,
      << <<1, 1, 0>>, <<0, 0, 1>>, <<1, 1, 0>>, <<0, 0, -1>> >> }

\* self.weights before load() has assigned it.
NoWeights == <<>>

RECURSIVE SumSeq(_)
SumSeq(xs) == IF xs = <<>> THEN 0 ELSE Head(xs) + SumSeq(Tail(xs))

RECURSIVE MaxSeq(_)
MaxSeq(xs) ==
    IF Len(xs) = 1 THEN xs[1]
    ELSE LET m == MaxSeq(Tail(xs)) IN IF Head(xs) >= m THEN Head(xs) ELSE m

\* Variant of ArgMax: the last index holding the maximum.
ArgMax_Last(xs) ==
    (CHOOSE i \in 1..Len(xs) :
        /\ xs[i] = MaxSeq(xs)
        /\ \A j \in (i + 1)..Len(xs) : xs[j] # MaxSeq(xs)) - 1

\* np.argmax of one row: the first index holding the maximum (0-based).
ArgMax(xs) ==
    (CHOOSE i \in 1..Len(xs) :
        /\ xs[i] = MaxSeq(xs)
        /\ \A j \in 1..(i - 1) : xs[j] # MaxSeq(xs)) - 1

\* np.exp(d) for a difference d <= 0 of integer logits, as a fixed-point
\* number with four decimals (rounded to nearest).
ExpTable == <<10000, 3679, 1353, 498, 183, 67, 25, 9, 3, 1>>

\* The fixed-point representation of 1.0, which is exp(0).
Scale == ExpTable[1]
ExpNeg(d) == IF -d < Len(ExpTable) THEN ExpTable[(-d) + 1] ELSE 0

\* Row n (1-based) of a 2-D array [shape, flat].
RowOf(arr, n) ==
    [k \in 1..arr.shape[2] |-> arr.flat[(n - 1) * arr.shape[2] + k]]

\* inputs @ self.weights for one row.
LogitsRow(row, w) ==
    [c \in 1..NumClasses |-> SumSeq([k \in 1..NumFeatures |-> row[k] * w[k][c]])]

\* exp / exp.sum for one row of logits, after subtracting the row maximum.
SoftmaxRow(lg) ==
    LET ex == [c \in 1..Len(lg) |-> ExpNeg(lg[c] - MaxSeq(lg))]
    IN  [c \in 1..Len(lg) |-> (ex[c] * Scale) \div SumSeq(ex)]

\* A NaN among the probabilities (which are 0..Scale otherwise).
NaN == -1

\* The probabilities of one input row.  An infinite input makes every logit
\* of the row inf, -inf or NaN (inf * 0); the row maximum m is then inf,
\* -inf or NaN, logits - m is NaN where the maximum stands (inf - inf), so
\* exp.sum() is NaN and so is every probability of the row.  np.argmax and
\* np.max treat the NaNs as one maximum.
ProbsRow(row, w) ==
    IF \E k \in 1..Len(row) : row[k] = Inf
    THEN [c \in 1..NumClasses |-> NaN]
    ELSE SoftmaxRow(LogitsRow(row, w))

\* IrisClassifier.predict(inputs) for an array [shape, flat]: the result
\* dict, or the exception it raises.
\*  - the matrix product needs the last dimension to be NumFeatures;
\*  - an array of 3 or more dimensions gets through the softmax, but
\*    argmax(axis=1) then yields index arrays, and CLASSES[i] raises.
Predict(arr, w) ==
    LET nd == Len(arr.shape) IN
    IF arr.shape[nd] # NumFeatures
    THEN [ok |-> FALSE,
          exc |-> Exc("ValueError",
                      IF arr.shape[nd] < NumFeatures
                      THEN "matmul: core dimension mismatch (size too small)"
                      ELSE "matmul: core dimension mismatch (size too large)")]
    ELSE IF nd > 2
    THEN [ok |-> FALSE,
          exc |-> Exc("TypeError",
                      "only integer scalar arrays can be converted to a scalar index")]
    ELSE LET N == arr.shape[1]
             probs == [n \in 1..N |-> ProbsRow(RowOf(arr, n), w)]
         IN  [ok |-> TRUE,
              probabilities |-> probs,
              predicted_class |-> [n \in 1..N |-> CLASSES[ArgMax(probs[n]) + 1]],
              confidence |-> [n \in 1..N |-> MaxSeq(probs[n])]]

\* ------------------------------------------------------------ schemas
\* Optional[str]
None == <<>>
Some(t) == <<t>>

InferenceInput(name, shape, datatype, data) ==
    [name |-> name, shape |-> shape, datatype |-> datatype, data |-> data]

InferenceRequest(id, inputs) == [id |-> id, inputs |-> inputs]

InferenceOutput(name, shape, datatype, data) ==
    [name |-> name, shape |-> shape, datatype |-> datatype, data |-> data]

InferenceResponse(id, model_name, model_version, outputs) ==
    [status |-> 200, id |-> id, model_name |-> model_name,
     model_version |-> model_version, outputs |-> outputs]

\* The response FastAPI makes of a raised HTTPException.
HTTPException(status_code, detail) == [status |-> status_code, detail |-> detail]

\* No response yet.
NoResponse == [status |-> 0]

\* ------------------------------------------------------- the try body
\* raw.reshape(1, -1) of a 1-D array.
Reshape1(arr) == [arr EXCEPT !.shape = <<1, Len(arr.flat)>>]

\* Variant of TryBody: the last input tensor is decoded instead of the first.
TryBody_LastInput(request, w) ==
    IF Len(request.inputs) = 0
    THEN [ok |-> FALSE, decoded |-> FALSE, predicted |-> FALSE,
          exc |-> Exc("IndexError", "list index out of range")]
    ELSE LET arr == NpArray(request.inputs[Len(request.inputs)].data) IN
         IF ~arr.ok
         THEN [ok |-> FALSE, decoded |-> FALSE, predicted |-> FALSE, exc |-> arr.exc]
         ELSE LET raw == IF Len(arr.shape) = 1 THEN Reshape1(arr) ELSE arr
                  result == Predict(raw, w)
              IN  IF ~result.ok
                  THEN [ok |-> FALSE, decoded |-> TRUE, predicted |-> TRUE,
                        exc |-> result.exc]
                  ELSE [ok |-> TRUE, decoded |-> TRUE, predicted |-> TRUE,
                        result |-> result]

\* Lines 144-148: the first input tensor is converted, a 1-D array becomes
\* one row, and the classifier runs.  The result is [ok, result] or
\* [ok, exc]; decoded tells whether np.array returned, predicted whether
\* predict was called.
TryBody(request, w) ==
    IF Len(request.inputs) = 0
    THEN [ok |-> FALSE, decoded |-> FALSE, predicted |-> FALSE,
          exc |-> Exc("IndexError", "list index out of range")]
    ELSE LET arr == NpArray(request.inputs[1].data) IN
         IF ~arr.ok
         THEN [ok |-> FALSE, decoded |-> FALSE, predicted |-> FALSE, exc |-> arr.exc]
         ELSE LET raw == IF Len(arr.shape) = 1 THEN Reshape1(arr) ELSE arr
                  result == Predict(raw, w)
              IN  IF ~result.ok
                  THEN [ok |-> FALSE, decoded |-> TRUE, predicted |-> TRUE,
                        exc |-> result.exc]
                  ELSE [ok |-> TRUE, decoded |-> TRUE, predicted |-> TRUE,
                        result |-> result]

\* Variant of ProbShape: the shape of the flattened probabilities.
ProbShape_Flattened(probs) == <<Len(probs) * Len(probs[1])>>

\* list(np.array(result["probabilities"]).shape) for the N rows of NumClasses
\* values predict returns.
ProbShape(probs) == <<Len(probs), Len(probs[1])>>

\* Variant of SuccessResponse: the response carries no id.
SuccessResponse_NoId(request, result) ==
    InferenceResponse(None, MODEL_NAME, MODEL_VERSION,
        << InferenceOutput("probabilities", ProbShape(result.probabilities),
                           "FP32", result.probabilities),
           InferenceOutput("predicted_class", <<Len(result.predicted_class)>>,
                           "BYTES", result.predicted_class) >>)

\* Lines 158-176: the response of a successful call.
SuccessResponse(request, result) ==
    InferenceResponse(request.id, MODEL_NAME, MODEL_VERSION,
        << InferenceOutput("probabilities", ProbShape(result.probabilities),
                           "FP32", result.probabilities),
           InferenceOutput("predicted_class", <<Len(result.predicted_class)>>,
                           "BYTES", result.predicted_class) >>)

\* Line 181: the response of a call whose try body raised e.
ErrorResponse(e) == HTTPException(500, e.msg)

\* ------------------------------------------------------------- inputs
Nums(xs) == [i \in 1..Len(xs) |-> Num(xs[i])]
RowA == <<5, 3, 1, 0>>
RowB == <<6, 3, 4, 1>>

Flat4 == List(Nums(RowA))
Flat8 == List(Nums(RowA \o RowB))
Flat3 == List(Nums(<<5, 3, 1>>))
Flat0 == List(<<>>)
FlatStr == List(<<Str("abc"), Num(3), Num(1), Num(0)>>)
FlatNumStr == List(<<Str("2"), Num(3), Num(1), Num(0)>>)
Nest1x4 == List(<<List(Nums(RowB))>>)
Nest2x4 == List(<<List(Nums(RowA)), List(Nums(RowB))>>)
Nest2x3 == List(<<List(Nums(<<5, 3, 1>>)), List(Nums(<<6, 3, 4>>))>>)
Ragged == List(<<List(Nums(RowA)), List(Nums(<<6, 3, 4>>))>>)
Cube == List(<<List(<<List(Nums(RowA))>>)>>)
FlatHuge == List(<<Big("1e39"), Num(3), Num(1), Num(0)>>)

\* The data payloads of the requests.
Payloads ==
    {Flat4, Flat8, Flat3, Flat0, FlatStr, FlatNumStr,
     Nest1x4, Nest2x4, Nest2x3, Ragged, Cube, FlatHuge}

\* The declared shapes of the requests.
Shapes == {<<1, 4>>, <<2, 4>>}

Ids == {None, Some("test-001")}

\* First input tensors: every payload declared as one row, and some
\* declared as two rows.
Tensors ==
    {InferenceInput("input", <<1, 4>>, "FP32", d) : d \in Payloads}
    \cup {InferenceInput("input", <<2, 4>>, "FP32", d) :
            d \in {Flat4, Flat8, Nest1x4, Nest2x4}}

Firsts ==
    {InferenceInput("input", <<1, 4>>, "FP32", Flat4),
     InferenceInput("input", <<1, 4>>, "FP32", FlatStr)}

\* Second input tensors, for the requests that carry two.
Extras ==
    {InferenceInput("extra", <<2, 4>>, "FP32", Nest2x4),
     InferenceInput("extra", <<2, 4>>, "FP32", Ragged)}

\* The request bodies that pass the schema validation of InferenceRequest:
\* no, one or two input tensors, with or without an id.
Requests ==
    {InferenceRequest(id, <<>>) : id \in Ids}
    \cup {InferenceRequest(None, <<t>>) : t \in Tensors}
    \cup {InferenceRequest(Some("test-001"), <<t>>) : t \in Firsts}
    \cup {InferenceRequest(None, <<t, x>>) : t \in Firsts, x \in Extras}

NoRequest == InferenceRequest(None, <<>>)

\* --------------------------------------------------- metric registry
\* Number of times the registrations of lines 32-44 are run again.
MaxReloads == 2

\* A metric name is a base and a suffix, so that the names a collector
\* claims in the registry can be derived from it.
Name(base, suffix) == <<base, suffix>>

\* Lines 32-44: the module's metrics, in the order of their registration.
MetricDefs ==
    << [var |-> "REQUEST_COUNT", class |-> "Counter",
        name |-> Name("inference_requests", "_total")],
       [var |-> "REQUEST_LATENCY", class |-> "Histogram",
        name |-> Name("inference_request_duration_seconds", "")],
       [var |-> "ACTIVE_REQUESTS", class |-> "Gauge",
        name |-> Name("inference_active_requests", "")],
       [var |-> "MODEL_LOADED", class |-> "Gauge",
        name |-> Name("model_loaded", "")] >>

MetricVarNames == {MetricDefs[i].var : i \in 1..Len(MetricDefs)}

\* The value None of a metric variable; collector ids start at 1.
NoMetric == 0

\* The names a new collector registers: a Counter drops a trailing _total
\* from its name and registers the name with and without _total and with
\* _created; a Histogram registers its name and its sample names; a Gauge
\* registers its name only.
CollectorNames(class, name) ==
    IF class = "Counter"
    THEN LET base == IF name[2] = "_total" THEN Name(name[1], "") ELSE name
         IN  {base, Name(base[1], "_total"), Name(base[1], "_created")}
    ELSE IF class = "Histogram"
    THEN {name} \cup {Name(name[1], sfx) : sfx \in {"_bucket", "_sum", "_count", "_created"}}
    ELSE {name}

\* Variant of Lookup: the registry is searched for the collector's own
\* name, which for a Counter is the name without _total.
Lookup_ByFullName(reg, name) ==
    IF \E e \in reg : e.name = name /\ e.own
    THEN (CHOOSE e \in reg : e.name = name /\ e.own).id
    ELSE NoMetric

\* REGISTRY._names_to_collectors.get(name).  An entry [name, id, own] maps a
\* name to its collector; own marks the collector's own name among them.
Lookup(reg, name) ==
    IF \E e \in reg : e.name = name
    THEN (CHOOSE e \in reg : e.name = name).id
    ELSE NoMetric

\* Lines 22-30, get_or_create_metric on the registry state st = [reg, next]:
\* the constructor registers the collector under all of its names, or
\* raises ValueError when one of them is taken, and then the collector
\* registered under the given name is returned.
GetOrCreateMetric(st, class, name) ==
    LET names == CollectorNames(class, name) IN
    IF \E e \in st.reg : e.name \in names
    THEN [reg |-> st.reg, next |-> st.next, ret |-> Lookup(st.reg, name)]
    ELSE [reg |-> st.reg \cup
                    {[name |-> n, id |-> st.next + 1,
                      own |-> (n = IF class = "Counter" THEN Name(name[1], "")
                                   ELSE name)] : n \in names},
          next |-> st.next + 1,
          ret |-> st.next + 1]

\* Lines 32-44 run on the registry reg with created collectors: the first i
\* registrations, giving the registry, the count and the metric variables.
RECURSIVE RegisterFirst(_, _, _)
RegisterFirst(i, reg, n) ==
    IF i = 0 THEN [reg |-> reg, next |-> n, vars |-> [v \in {} |-> NoMetric]]
    ELSE LET before == RegisterFirst(i - 1, reg, n)
             def == MetricDefs[i]
             r == GetOrCreateMetric([reg |-> before.reg, next |-> before.next],
                                    def.class, def.name)
         IN  [reg |-> r.reg, next |-> r.next,
              vars |-> [v \in (DOMAIN before.vars) \cup {def.var} |->
                          IF v = def.var THEN r.ret ELSE before.vars[v]]]

RegisterAll(reg, n) == RegisterFirst(Len(MetricDefs), reg, n)

\* No probe response yet.
NoProbe == [endpoint |-> "none", status |-> 0]

\* -------------------------------------------------------------- state
VARIABLES
    loaded,           \* model.loaded
    weights,          \* model.weights
    load_pc,          \* position of IrisClassifier.__init__ / load
    model_loaded,     \* gauge MODEL_LOADED{model}
    active_requests,  \* gauge ACTIVE_REQUESTS
    request_count,    \* counter REQUEST_COUNT{model, status}
    latency_count,    \* number of observations of REQUEST_LATENCY{model}
    pc,               \* position of each infer call
    req,              \* the request of each infer call
    resp,             \* the response each infer call has built or returned
    ready_resp,       \* the response of the last /ready request
    calls,            \* number of infer calls dispatched so far
    handled,          \* number of infer calls that passed the readiness check
    decodes,          \* number of times np.array ran on an input tensor
    predicts,         \* number of times model.predict ran
    returned,         \* number of infer responses sent, by status code
    probe_resp,       \* the last response of /health, /v2/models/{name}, /metrics
    registry,         \* REGISTRY._names_to_collectors, as [name, id] entries
    handles,          \* REQUEST_COUNT, REQUEST_LATENCY, ACTIVE_REQUESTS, MODEL_LOADED
    created,          \* number of collectors constructed and registered
    reloads           \* number of times lines 32-44 ran again

vars ==
    <<loaded, weights, load_pc, model_loaded, active_requests, request_count,
      latency_count, pc, req, resp, ready_resp, calls, handled, decodes,
      predicts, returned, probe_resp, registry, handles, created, reloads>>

modelVars == <<loaded, weights, load_pc, model_loaded>>
metricVars == <<active_requests, request_count, latency_count>>
callVars == <<pc, req, resp>>
ghostVars == <<calls, handled, decodes, predicts, returned>>
registryVars == <<registry, handles, created, reloads>>
probeVars == <<probe_resp, registryVars>>

\* `if METRIC:` before an update: 1 when the metric variable holds a
\* collector, 0 when it holds None.
Live(v) == IF handles[v] # NoMetric THEN 1 ELSE 0

\* The metrics are registered (lines 32-44) and self.loaded = False (line
\* 76); no metric has a sample and no request has been received.
Init ==
    /\ loaded = FALSE
    /\ weights = NoWeights
    /\ load_pc = "init"
    /\ model_loaded = 0
    /\ active_requests = 0
    /\ request_count = [s \in {"success", "error"} |-> 0]
    /\ latency_count = 0
    /\ pc = [c \in Calls |-> "idle"]
    /\ req = [c \in Calls |-> NoRequest]
    /\ resp = [c \in Calls |-> NoResponse]
    /\ ready_resp = NoResponse
    /\ calls = 0
    /\ handled = 0
    /\ decodes = 0
    /\ predicts = 0
    /\ returned = [s \in {200, 500, 503} |-> 0]
    /\ probe_resp = NoProbe
    /\ registry = RegisterAll({}, 0).reg
    /\ handles = RegisterAll({}, 0).vars
    /\ created = RegisterAll({}, 0).next
    /\ reloads = 0

\* ---------------------------------------------------------------- load
\* Line 82: self.weights = np.random.randn(4, 3)
LoadWeights ==
    /\ load_pc = "init"
    /\ \E w \in WeightChoices : weights' = w
    /\ load_pc' = "weights"
    /\ UNCHANGED <<loaded, model_loaded, metricVars, callVars, ready_resp, probeVars, ghostVars>>

\* Line 83: self.loaded = True
SetLoaded ==
    /\ load_pc = "weights"
    /\ loaded' = TRUE
    /\ load_pc' = "flag"
    /\ UNCHANGED <<weights, model_loaded, metricVars, callVars, ready_resp, probeVars, ghostVars>>

\* Lines 84-85: MODEL_LOADED.labels(model=...).set(1)
SetModelLoadedGauge ==
    /\ load_pc = "flag"
    /\ model_loaded' = (IF Live("MODEL_LOADED") = 1 THEN 1 ELSE model_loaded)
    /\ load_pc' = "done"
    /\ UNCHANGED <<loaded, weights, metricVars, callVars, ready_resp, probeVars, ghostVars>>

\* -------------------------------------------------------------- /ready
\* Variant of ReadyResponse: the probe does not look at model.loaded.
ReadyResponse_AlwaysReady(isLoaded) == [status |-> 200, detail |-> "ready"]

ReadyResponse(isLoaded) ==
    IF ~isLoaded THEN HTTPException(503, "Model not ready")
    ELSE [status |-> 200, detail |-> "ready"]

Ready ==
    /\ ready_resp' = ReadyResponse(loaded)
    /\ UNCHANGED <<modelVars, metricVars, callVars, ghostVars, probeVars>>

\* -------------------------------------------------------------- infer
InFlight == {c \in Calls : pc[c] \in {"try", "counted", "finally"}}

\* Variant of InferEnter: the gauge is incremented before the readiness
\* check, so a rejected request leaves it incremented.
InferEnter_IncFirst(c, r) ==
    /\ pc[c] \in {"idle", "done"}
    /\ calls < MaxCalls
    /\ calls' = calls + 1
    /\ req' = [req EXCEPT ![c] = r]
    /\ active_requests' = active_requests + Live("ACTIVE_REQUESTS")
    /\ IF ~loaded
       THEN /\ resp' = [resp EXCEPT ![c] = HTTPException(503, "Model not ready")]
            /\ pc' = [pc EXCEPT ![c] = "done"]
            /\ returned' = [returned EXCEPT ![503] = @ + 1]
            /\ UNCHANGED handled
       ELSE /\ resp' = [resp EXCEPT ![c] = NoResponse]
            /\ pc' = [pc EXCEPT ![c] = "try"]
            /\ handled' = handled + 1
            /\ UNCHANGED returned
    /\ UNCHANGED <<modelVars, request_count, latency_count, ready_resp, probeVars,
                   decodes, predicts>>

\* Lines 135-141: the readiness check, then the gauge increment.
InferEnter(c, r) ==
    /\ pc[c] \in {"idle", "done"}
    /\ calls < MaxCalls
    /\ calls' = calls + 1
    /\ req' = [req EXCEPT ![c] = r]
    /\ IF ~loaded
       THEN /\ resp' = [resp EXCEPT ![c] = HTTPException(503, "Model not ready")]
            /\ pc' = [pc EXCEPT ![c] = "done"]
            /\ returned' = [returned EXCEPT ![503] = @ + 1]
            /\ UNCHANGED <<active_requests, handled>>
       ELSE /\ active_requests' = active_requests + Live("ACTIVE_REQUESTS")
            /\ resp' = [resp EXCEPT ![c] = NoResponse]
            /\ pc' = [pc EXCEPT ![c] = "try"]
            /\ handled' = handled + 1
            /\ UNCHANGED returned
    /\ UNCHANGED <<modelVars, request_count, latency_count, ready_resp, probeVars,
                   decodes, predicts>>

\* Variant of InferCountSuccess: predict scales self.weights in place.
InferCountSuccess_TouchesWeights(c) ==
    /\ pc[c] = "try"
    /\ LET body == TryBody(req[c], weights) IN
         /\ body.ok
         /\ request_count' =
              [request_count EXCEPT !["success"] = @ + Live("REQUEST_COUNT")]
         /\ decodes' = decodes + 1
         /\ predicts' = predicts + 1
    /\ weights' = [k \in 1..NumFeatures |-> [j \in 1..NumClasses |-> 2 * weights[k][j]]]
    /\ pc' = [pc EXCEPT ![c] = "counted"]
    /\ UNCHANGED <<loaded, load_pc, model_loaded, active_requests, latency_count,
                   req, resp, ready_resp, probeVars, calls, handled, returned>>

\* Variant of InferCountSuccess: the counter is a plain accumulator, and the
\* increment is lost when another call is updating it at the same time.
InferCountSuccess_Lossy(c) ==
    /\ pc[c] = "try"
    /\ LET body == TryBody(req[c], weights) IN
         /\ body.ok
         /\ request_count' =
              [request_count EXCEPT !["success"] =
                 @ + (IF \E d \in Calls \ {c} : pc[d] = "try" THEN 0 ELSE 1)]
         /\ decodes' = decodes + 1
         /\ predicts' = predicts + 1
    /\ pc' = [pc EXCEPT ![c] = "counted"]
    /\ UNCHANGED <<modelVars, active_requests, latency_count, req, resp,
                   ready_resp, probeVars, calls, handled, returned>>

\* Lines 144-152: the try body ran without an exception and the success
\* counter is incremented.
InferCountSuccess(c) ==
    /\ pc[c] = "try"
    /\ LET body == TryBody(req[c], weights) IN
         /\ body.ok
         /\ request_count' =
              [request_count EXCEPT !["success"] = @ + Live("REQUEST_COUNT")]
         /\ decodes' = decodes + 1
         /\ predicts' = predicts + 1
    /\ pc' = [pc EXCEPT ![c] = "counted"]
    /\ UNCHANGED <<modelVars, active_requests, latency_count, req, resp,
                   ready_resp, probeVars, calls, handled, returned>>

\* Lines 153-176: the latency is observed and the response is built.
InferObserve(c) ==
    /\ pc[c] = "counted"
    /\ latency_count' = latency_count + Live("REQUEST_LATENCY")
    /\ resp' = [resp EXCEPT ![c] =
                  SuccessResponse(req[c], TryBody(req[c], weights).result)]
    /\ pc' = [pc EXCEPT ![c] = "finally"]
    /\ UNCHANGED <<modelVars, active_requests, request_count, req, ready_resp, probeVars,
                   ghostVars>>

\* Variant of InferExcept: the gauge is decremented on the success path
\* only, so a failing call returns without the decrement.
InferExcept_NoFinally(c) ==
    /\ pc[c] = "try"
    /\ LET body == TryBody(req[c], weights) IN
         /\ ~body.ok
         /\ request_count' =
              [request_count EXCEPT !["error"] = @ + Live("REQUEST_COUNT")]
         /\ resp' = [resp EXCEPT ![c] = ErrorResponse(body.exc)]
         /\ decodes' = decodes + (IF body.decoded THEN 1 ELSE 0)
         /\ predicts' = predicts + (IF body.predicted THEN 1 ELSE 0)
    /\ pc' = [pc EXCEPT ![c] = "done"]
    /\ returned' = [returned EXCEPT ![500] = @ + 1]
    /\ UNCHANGED <<modelVars, active_requests, latency_count, req, ready_resp, probeVars,
                   calls, handled>>

\* Variant of InferExcept: the except clause does not count the error.
InferExcept_Uncounted(c) ==
    /\ pc[c] = "try"
    /\ LET body == TryBody(req[c], weights) IN
         /\ ~body.ok
         /\ resp' = [resp EXCEPT ![c] = ErrorResponse(body.exc)]
         /\ decodes' = decodes + (IF body.decoded THEN 1 ELSE 0)
         /\ predicts' = predicts + (IF body.predicted THEN 1 ELSE 0)
    /\ pc' = [pc EXCEPT ![c] = "finally"]
    /\ UNCHANGED <<modelVars, active_requests, request_count, latency_count,
                   req, ready_resp, probeVars, calls, handled, returned>>

\* Variant of InferExcept: the latency is observed for a failed call too.
InferExcept_Observes(c) ==
    /\ pc[c] = "try"
    /\ LET body == TryBody(req[c], weights) IN
         /\ ~body.ok
         /\ request_count' =
              [request_count EXCEPT !["error"] = @ + Live("REQUEST_COUNT")]
         /\ resp' = [resp EXCEPT ![c] = ErrorResponse(body.exc)]
         /\ decodes' = decodes + (IF body.decoded THEN 1 ELSE 0)
         /\ predicts' = predicts + (IF body.predicted THEN 1 ELSE 0)
    /\ latency_count' = latency_count + Live("REQUEST_LATENCY")
    /\ pc' = [pc EXCEPT ![c] = "finally"]
    /\ UNCHANGED <<modelVars, active_requests, req, ready_resp, probeVars, calls, handled,
                   returned>>

\* Variant of InferExcept: a failed call marks the model as not loaded.
InferExcept_Unloads(c) ==
    /\ pc[c] = "try"
    /\ LET body == TryBody(req[c], weights) IN
         /\ ~body.ok
         /\ request_count' =
              [request_count EXCEPT !["error"] = @ + Live("REQUEST_COUNT")]
         /\ resp' = [resp EXCEPT ![c] = ErrorResponse(body.exc)]
         /\ decodes' = decodes + (IF body.decoded THEN 1 ELSE 0)
         /\ predicts' = predicts + (IF body.predicted THEN 1 ELSE 0)
    /\ loaded' = FALSE
    /\ pc' = [pc EXCEPT ![c] = "finally"]
    /\ UNCHANGED <<weights, load_pc, model_loaded, active_requests, latency_count,
                   req, ready_resp, probeVars, calls, handled, returned>>

\* Lines 144-148 and 177-181: the try body raised an exception; the error
\* counter is incremented and HTTPException(500, str(e)) is raised.
InferExcept(c) ==
    /\ pc[c] = "try"
    /\ LET body == TryBody(req[c], weights) IN
         /\ ~body.ok
         /\ request_count' =
              [request_count EXCEPT !["error"] = @ + Live("REQUEST_COUNT")]
         /\ resp' = [resp EXCEPT ![c] = ErrorResponse(body.exc)]
         /\ decodes' = decodes + (IF body.decoded THEN 1 ELSE 0)
         /\ predicts' = predicts + (IF body.predicted THEN 1 ELSE 0)
    /\ pc' = [pc EXCEPT ![c] = "finally"]
    /\ UNCHANGED <<modelVars, active_requests, latency_count, req, ready_resp, probeVars,
                   calls, handled, returned>>

\* Lines 182-184: the finally clause; the call returns its response.
InferFinally(c) ==
    /\ pc[c] = "finally"
    /\ active_requests' = active_requests - Live("ACTIVE_REQUESTS")
    /\ pc' = [pc EXCEPT ![c] = "done"]
    /\ returned' = [returned EXCEPT ![resp[c].status] = @ + 1]
    /\ UNCHANGED <<modelVars, request_count, latency_count, req, resp,
                   ready_resp, probeVars, calls, handled, decodes, predicts>>

Next ==
    \/ LoadWeights
    \/ SetLoaded
    \/ SetModelLoadedGauge
    \/ Ready
    \/ \E c \in Calls, r \in Requests : InferEnter(c, r)
    \/ \E c \in Calls : InferCountSuccess(c)
    \/ \E c \in Calls : InferObserve(c)
    \/ \E c \in Calls : InferExcept(c)
    \/ \E c \in Calls : InferFinally(c)

Spec == Init /\ [][Next]_vars

\* ------------------------------------------------- read-only endpoints
\* Variant of HealthResponse: health fails like /ready while not loaded.
HealthResponse_NotReady(isLoaded) ==
    IF isLoaded
    THEN [endpoint |-> "health", status |-> 200,
          body |-> [status |-> "ok", model_loaded |-> TRUE, model |-> MODEL_NAME]]
    ELSE [endpoint |-> "health", status |-> 503,
          body |-> [status |-> "error", model_loaded |-> TRUE, model |-> MODEL_NAME]]

\* Lines 114-116
HealthResponse(isLoaded) ==
    [endpoint |-> "health", status |-> 200,
     body |-> [status |-> "ok", model_loaded |-> isLoaded, model |-> MODEL_NAME]]

Health ==
    /\ probe_resp' = HealthResponse(loaded)
    /\ UNCHANGED <<modelVars, metricVars, callVars, ready_resp, ghostVars,
                   registryVars>>

\* Lines 124-132: the same document for every model name.
ModelMetadata ==
    /\ probe_resp' =
         [endpoint |-> "metadata", status |-> 200,
          body |-> [name |-> MODEL_NAME, versions |-> <<MODEL_VERSION>>,
                    platform |-> "python",
                    inputs |-> <<[name |-> "input", datatype |-> "FP32",
                                  shape |-> <<-1, NumFeatures>>]>>,
                    outputs |-> <<[name |-> "probabilities", datatype |-> "FP32",
                                   shape |-> <<-1, NumClasses>>]>>]]
    /\ UNCHANGED <<modelVars, metricVars, callVars, ready_resp, ghostVars,
                   registryVars>>

\* Lines 186-188: generate_latest() renders the current sample values.
Metrics ==
    /\ probe_resp' =
         [endpoint |-> "metrics", status |-> 200,
          body |-> [inference_requests_total |-> request_count,
                    inference_request_duration_seconds_count |-> latency_count,
                    inference_active_requests |-> active_requests,
                    model_loaded |-> model_loaded]]
    /\ UNCHANGED <<modelVars, metricVars, callVars, ready_resp, ghostVars,
                   registryVars>>

\* Lines 32-44 run again in the same process: every get_or_create_metric
\* call finds its name taken.
RegisterMetrics ==
    /\ reloads < MaxReloads
    /\ reloads' = reloads + 1
    /\ LET r == RegisterAll(registry, created) IN
         /\ registry' = r.reg
         /\ handles' = r.vars
         /\ created' = r.next
    /\ UNCHANGED <<modelVars, metricVars, callVars, ready_resp, ghostVars,
                   probe_resp>>

\* The requests sent along with the probes: a valid one, an undecodable one
\* and one without input tensors.
ProbeRequests ==
    {InferenceRequest(None, <<InferenceInput("input", <<1, 4>>, "FP32", Flat4)>>),
     InferenceRequest(None, <<InferenceInput("input", <<1, 4>>, "FP32", FlatStr)>>),
     InferenceRequest(None, <<>>)}

\* Every endpoint of the app, and the repeated registration.
NextAll ==
    \/ LoadWeights
    \/ SetLoaded
    \/ SetModelLoadedGauge
    \/ Ready
    \/ Health
    \/ ModelMetadata
    \/ Metrics
    \/ RegisterMetrics
    \/ \E c \in Calls, r \in ProbeRequests : InferEnter(c, r)
    \/ \E c \in Calls : InferCountSuccess(c)
    \/ \E c \in Calls : InferObserve(c)
    \/ \E c \in Calls : InferExcept(c)
    \/ \E c \in Calls : InferFinally(c)

SpecAll == Init /\ [][NextAll]_vars

\* ============================================================== claims
CallsAt(p) == {c \in Calls : pc[c] = p}
Finishing(status) == {c \in Calls : pc[c] = "finally" /\ resp[c].status = status}

\* C1: the active-request gauge equals the number of infer calls between
\* the entry increment and the exit decrement; it is never negative, and it
\* is back at zero whenever every call has returned, whatever the calls'
\* outcomes were.
C1_GaugeBalanced ==
    /\ active_requests = Cardinality(InFlight)
    /\ active_requests >= 0
    /\ (\A c \in Calls : pc[c] \in {"idle", "done"}) => active_requests = 0

\* C1 witness: one call has returned after a failure while another one,
\* which succeeded, is still before its exit.
C1_Witness ==
    \E c, d \in Calls :
        /\ pc[c] = "done" /\ resp[c].status = 500
        /\ pc[d] = "finally" /\ resp[d].status = 200
        /\ active_requests = 1

\* C2: every handled call increments inference_requests_total exactly once:
\* with status=success exactly when it answers 200 and with status=error
\* otherwise.  So the success counter is the number of 200 answers (sent or
\* being finished), the error counter the number of 500 answers, and their
\* sum the number of handled calls that have left the try body.
C2_CountPartition ==
    /\ request_count["success"]
         = returned[200] + Cardinality(CallsAt("counted"))
                         + Cardinality(Finishing(200))
    /\ request_count["error"] = returned[500] + Cardinality(Finishing(500))
    /\ request_count["success"] + request_count["error"]
         + Cardinality(CallsAt("try")) = handled
    /\ InFlight = {} =>
         request_count["success"] + request_count["error"] = handled

\* C2 witness: a successful and a failed call have both returned.
C2_Witness ==
    /\ InFlight = {}
    /\ returned[200] = 1 /\ request_count["success"] = 1
    /\ returned[500] = 1 /\ request_count["error"] = 1

\* --------------------------------------------- predicates on requests
FirstData(r) == r.inputs[1].data
IsFlat(d) == IsList(d) /\ \A i \in 1..Len(Items(d)) : ~IsList(Items(d)[i])
AllNumeric(d) == \A i \in 1..Len(Leaves(d)) : IsNumeric(Leaves(d)[i])
IsRow(v) == IsFlat(v) /\ Len(Items(v)) = NumFeatures

\* A request the classifier accepts: the first tensor is numeric and is
\* one row of NumFeatures values or a non-empty list of such rows.
ValidRequest(r) ==
    /\ Len(r.inputs) >= 1
    /\ AllNumeric(FirstData(r))
    /\ \/ IsRow(FirstData(r))
       \/ /\ Len(Items(FirstData(r))) >= 1
          /\ \A i \in 1..Len(Items(FirstData(r))) : IsRow(Items(FirstData(r))[i])

\* The batch size N of a valid request.
BatchRows(r) == IF IsFlat(FirstData(r)) THEN 1 ELSE Len(Items(FirstData(r)))

\* A call that passed the readiness check and has returned.
Returned(c) == pc[c] = "done" /\ resp[c].status # 503

\* C3: while loaded is false an infer request is answered 503 at once,
\* without a decode or a classifier run, and /ready answers 503; when loaded
\* is true /ready answers 200 and a valid infer request is answered 200.
C3_Readiness ==
    /\ [][(calls' # calls /\ ~loaded) =>
            /\ decodes' = decodes /\ predicts' = predicts
            /\ \E c \in Calls :
                 /\ pc'[c] = "done"
                 /\ resp'[c] = HTTPException(503, "Model not ready")
                 /\ \A d \in Calls \ {c} : pc'[d] = pc[d] /\ resp'[d] = resp[d]]_vars
    /\ [][ready_resp' # ready_resp =>
            ready_resp'.status = (IF loaded THEN 200 ELSE 503)]_vars
    /\ [](\A c \in Calls :
            (Returned(c) /\ ValidRequest(req[c])) => resp[c].status = 200)
    /\ [](\A c \in Calls : resp[c].status = 503 => pc[c] = "done")

\* C3 witness: one infer request was rejected before the model was loaded,
\* a valid one was answered 200 after it, and /ready has answered 200.
C3_Witness ==
    /\ loaded
    /\ ready_resp.status = 200
    /\ \E c, d \in Calls :
         /\ pc[c] = "done" /\ resp[c].status = 503
         /\ pc[d] = "done" /\ resp[d].status = 200 /\ ValidRequest(req[d])

\* The first tensor cannot be decoded: it has a non-numeric element, ragged
\* rows, or a number of features that does not fit the weight matrix.
Undecodable(d) ==
    \/ ~NpShape(d).ok
    \/ ~AllNumeric(d)
    \/ LET sh == NpShape(d).shape IN
         /\ sh[Len(sh)] # NumFeatures
         /\ ~(Len(sh) = 1 /\ sh[1] > 0 /\ sh[1] % NumFeatures = 0)

\* C4: a call whose first input tensor cannot be decoded increments the
\* error counter and is answered with a client error: neither 200 nor the
\* 500 of an unexpected failure.
C4_DecodeFailureIsClientError ==
    \A c \in Calls :
        (Returned(c) /\ Len(req[c].inputs) >= 1 /\ Undecodable(FirstData(req[c])))
            => /\ request_count["error"] >= 1
               /\ resp[c].status \notin {200, 500}

\* C5: a flat numeric payload of k*F values, k >= 1, is decoded to k rows
\* and answered 200 with k result rows; a flat payload of zero values or of
\* a length that is no multiple of F is not answered 200.
C5_FlatPayloadReshaped ==
    \A c \in Calls :
        (/\ Returned(c) /\ Len(req[c].inputs) >= 1
         /\ IsFlat(FirstData(req[c])) /\ AllNumeric(FirstData(req[c])))
            => LET len == Len(Items(FirstData(req[c]))) IN
               IF len > 0 /\ len % NumFeatures = 0
               THEN /\ resp[c].status = 200
                    /\ resp[c].outputs[1].shape = <<len \div NumFeatures, NumClasses>>
                    /\ Len(resp[c].outputs[1].data) = len \div NumFeatures
                    /\ Len(resp[c].outputs[2].data) = len \div NumFeatures
               ELSE resp[c].status # 200

RECURSIVE Product(_)
Product(xs) == IF xs = <<>> THEN 1 ELSE Head(xs) * Product(Tail(xs))

\* The data of a tensor agrees with its declared shape.
ShapeAgrees(t) ==
    /\ Len(Leaves(t.data)) = Product(t.shape)
    /\ ~IsFlat(t.data) => (NpShape(t.data).ok /\ NpShape(t.data).shape = t.shape)

\* C6: a request is answered 200 only if the data of its first input tensor
\* agrees with the tensor's declared shape.
C6_AcceptedOnlyIfShapeAgrees ==
    \A c \in Calls :
        (pc[c] = "done" /\ resp[c].status = 200) => ShapeAgrees(req[c].inputs[1])

\* C7: a latency observation is recorded for exactly the calls that counted
\* a success: the number of observations is the success count less the
\* calls between the two updates, and no other call adds one.
C7_LatencyOnSuccessOnly ==
    /\ latency_count + Cardinality(CallsAt("counted")) = request_count["success"]
    /\ latency_count = returned[200] + Cardinality(Finishing(200))
    /\ InFlight = {} => latency_count = request_count["success"]

\* C7 witness: a success and a failure have both returned, and exactly one
\* latency observation was recorded.
C7_Witness ==
    /\ InFlight = {}
    /\ latency_count = 1
    /\ request_count["success"] = 1
    /\ request_count["error"] >= 1

\* C8: a 200 response to a valid batch of N rows has exactly the outputs
\* probabilities (FP32, shape [N, 3], N rows of 3 values) and
\* predicted_class (BYTES, shape [N], N entries), in this order.
C8_TwoOutputs ==
    \A c \in Calls :
        (ValidRequest(req[c]) /\ resp[c].status = 200) =>
            LET N == BatchRows(req[c])
                out == resp[c].outputs
            IN  /\ N >= 1
                /\ Len(out) = 2
                /\ out[1].name = "probabilities"
                /\ out[1].datatype = "FP32"
                /\ out[1].shape = <<N, 3>>
                /\ Len(out[1].data) = N
                /\ \A n \in 1..N : Len(out[1].data[n]) = 3
                /\ out[2].name = "predicted_class"
                /\ out[2].datatype = "BYTES"
                /\ out[2].shape = <<N>>
                /\ Len(out[2].data) = N

\* C8 witness: a batch of two rows has been answered 200.
C8_Witness ==
    \E c \in Calls :
        /\ pc[c] = "done" /\ resp[c].status = 200
        /\ ValidRequest(req[c]) /\ BatchRows(req[c]) = 2

\* A failure that is no fault of the tensor's content: the request has no
\* input tensor, or its tensor is a well-formed numeric array of rows of
\* NumFeatures values that the classifier fails on.
InternalFailure(r) ==
    \/ Len(r.inputs) = 0
    \/ /\ ~Undecodable(FirstData(r))
       /\ ~ValidRequest(r)
       /\ Len(NpShape(FirstData(r)).shape) > 2

\* C9: the detail of the response to an unexpected internal failure does
\* not depend on the failure: two calls that fail for different internal
\* reasons are answered with the same detail.
C9_GenericErrorDetail ==
    \A c, d \in Calls :
        (/\ Returned(c) /\ InternalFailure(req[c]) /\ resp[c].status = 500
         /\ Returned(d) /\ InternalFailure(req[d]) /\ resp[d].status = 500)
            => resp[c].detail = resp[d].detail

\* C10: a failure stays within its request: every call that has returned
\* carries a structured response (200 with outputs, or 500 or 503 with a
\* detail), a failure never makes the model not ready, and a valid request
\* is answered 200 with one class of CLASSES per row, whatever failed
\* before it.
C10_FailureIsolated ==
    /\ [](\A c \in Calls : pc[c] = "done" =>
            \/ resp[c].status = 200 /\ Len(resp[c].outputs) = 2
            \/ resp[c].status \in {500, 503} /\ resp[c].detail # "")
    /\ [][loaded => loaded']_vars
    /\ [](\A c \in Calls :
            (Returned(c) /\ ValidRequest(req[c])) =>
                /\ resp[c].status = 200
                /\ resp[c].model_name = MODEL_NAME
                /\ Len(resp[c].outputs[2].data) = BatchRows(req[c])
                /\ \A n \in 1..BatchRows(req[c]) :
                     \E k \in 1..NumClasses : resp[c].outputs[2].data[n] = CLASSES[k])

\* C10 witness: only one task ever ran; its earlier request failed and its
\* latest, valid request was answered 200.
C10_Witness ==
    /\ pc["c2"] = "idle"
    /\ pc["c1"] = "done" /\ resp["c1"].status = 200 /\ ValidRequest(req["c1"])
    /\ request_count["error"] >= 1 /\ returned[500] >= 1
    /\ loaded

\* C11: a 200 response carries the id of its request unchanged; a request
\* without an id is answered with the id null.
C11_IdEchoed ==
    \A c \in Calls :
        resp[c].status = 200 =>
            /\ resp[c].id = req[c].id
            /\ (req[c].id = None => resp[c].id = None)

\* C11 witness: a request with an id and a request without one have both
\* been answered 200.
C11_Witness ==
    \E c, d \in Calls :
        /\ pc[c] = "done" /\ resp[c].status = 200 /\ req[c].id = Some("test-001")
        /\ pc[d] = "done" /\ resp[d].status = 200 /\ req[d].id = None

\* C13: in every 200 response the class of row n is the label at the first
\* index that holds the largest probability of row n, hence one of CLASSES,
\* and the confidence predict computes for the row is that largest
\* probability.
C13_ArgmaxFirst ==
    \A c \in Calls :
        resp[c].status = 200 =>
            \A n \in 1..Len(resp[c].outputs[1].data) :
                LET p == resp[c].outputs[1].data[n]
                    cls == resp[c].outputs[2].data[n]
                    conf == TryBody(req[c], weights).result.confidence[n]
                IN  /\ \E k \in 1..NumClasses :
                         /\ CLASSES[k] = cls
                         /\ \A j \in 1..NumClasses : p[j] <= p[k]
                         /\ \A j \in 1..(k - 1) : p[j] < p[k]
                         /\ conf = p[k]
                    /\ cls \in {"setosa", "versicolor", "virginica"}

\* C13 witness: a returned row whose two largest probabilities are equal
\* and whose class is the first of the two.
C13_Witness ==
    \E c \in Calls :
        /\ pc[c] = "done" /\ resp[c].status = 200
        /\ \E n \in 1..Len(resp[c].outputs[1].data) :
             LET p == resp[c].outputs[1].data[n] IN
               /\ p[1] = p[2] /\ p[1] > p[3]
               /\ resp[c].outputs[2].data[n] = "setosa"

\* C18: an infer request rejected because the model is not ready changes no
\* metric: not the active-request gauge, not inference_requests_total, not
\* the latency histogram, not the model_loaded gauge.
C18_RejectionLeavesMetrics ==
    [][(calls' # calls /\ ~loaded) =>
          /\ active_requests' = active_requests
          /\ request_count' = request_count
          /\ latency_count' = latency_count
          /\ model_loaded' = model_loaded]_vars

\* C18 witness: two requests have been rejected and every metric still has
\* its initial value.
C18_Witness ==
    /\ returned[503] = 2
    /\ active_requests = 0
    /\ request_count["success"] = 0 /\ request_count["error"] = 0
    /\ latency_count = 0

\* C19: a request without input tensors is a failed request: it is answered
\* with an error response, counts one error, leaves the success counter and
\* the latency histogram alone and releases the gauge; and two requests
\* with the same id and the same first tensor get the same response,
\* whatever tensors follow the first.
C19_EmptyInputsFail ==
    /\ [][\A c \in Calls :
            (pc[c] = "try" /\ Len(req[c].inputs) = 0 /\ pc'[c] # "try") =>
                /\ pc'[c] = "finally"
                /\ resp'[c].status \notin {0, 200}
                /\ request_count'["error"] = request_count["error"] + 1
                /\ request_count'["success"] = request_count["success"]
                /\ latency_count' = latency_count]_vars
    /\ [](\A c \in Calls :
            (pc[c] = "done" /\ Len(req[c].inputs) = 0) =>
                /\ resp[c].status \in {500, 503}
                /\ (InFlight = {} => active_requests = 0))
    /\ [](\A c, d \in Calls :
            (/\ Returned(c) /\ Returned(d)
             /\ Len(req[c].inputs) >= 1 /\ Len(req[d].inputs) >= 1
             /\ req[c].id = req[d].id
             /\ req[c].inputs[1] = req[d].inputs[1])
                => resp[c] = resp[d])

\* C19 witness: a request without inputs was answered 500 and counted as
\* the only error, and a request with two tensors has returned as well.
C19_Witness ==
    \E c, d \in Calls :
        /\ pc[c] = "done" /\ Len(req[c].inputs) = 0 /\ resp[c].status = 500
        /\ pc[d] = "done" /\ Len(req[d].inputs) = 2 /\ resp[d].status = 200
        /\ request_count["error"] = 1 /\ request_count["success"] = 1
        /\ latency_count = 1 /\ active_requests = 0

\* The tolerance 1e-3 in fixed point.
Tolerance == Scale \div 1000

\* C16: the probabilities returned for a row of a valid request are each
\* in [0, 1] and sum to 1.0 within 1e-3.
C16_ProbabilitiesNormalised ==
    \A c \in Calls :
        (ValidRequest(req[c]) /\ resp[c].status = 200) =>
            \A n \in 1..Len(resp[c].outputs[1].data) :
                LET p == resp[c].outputs[1].data[n] IN
                  /\ \A k \in 1..Len(p) : p[k] >= 0 /\ p[k] <= Scale
                  /\ SumSeq(p) - Scale <= Tolerance
                  /\ Scale - SumSeq(p) <= Tolerance

\* A step of a request handler: an infer call moves, or a probe is answered.
RequestStep ==
    \/ calls' # calls
    \/ pc' # pc
    \/ ready_resp' # ready_resp
    \/ probe_resp' # probe_resp

\* C12: loaded becomes true only after the weights are assigned, it never
\* becomes false again and the weights never change after it; no request
\* (health, ready, metadata, metrics, infer) changes loaded or the weights,
\* and the step that runs predict changes neither the model nor, beyond the
\* handler's own request count, a metric.
C12_LoadedOnce ==
    /\ [](loaded => weights \in WeightChoices)
    /\ [][loaded => (loaded' /\ weights' = weights)]_vars
    /\ [][RequestStep => (loaded' = loaded /\ weights' = weights)]_vars
    /\ [][predicts' # predicts =>
            /\ loaded' = loaded /\ weights' = weights
            /\ model_loaded' = model_loaded
            /\ active_requests' = active_requests
            /\ latency_count' = latency_count]_vars

\* C12 witness: the model is loaded, infer has answered 200 and 500, /ready
\* and /metrics have been answered.
C12_Witness ==
    /\ loaded /\ load_pc = "done"
    /\ returned[200] >= 1 /\ returned[500] >= 1
    /\ ready_resp.status = 200
    /\ probe_resp.endpoint = "metrics"

\* C14: whenever the registrations run again, every metric variable keeps
\* the collector that was registered first under its name: no variable is
\* None, no collector is added, and each name has one collector.
C14_RegistrationIdempotent ==
    /\ [](\A i \in 1..Len(MetricDefs) :
            /\ handles[MetricDefs[i].var] # NoMetric
            /\ handles[MetricDefs[i].var] = i
            /\ \E e \in registry :
                 e.name = MetricDefs[i].name /\ e.id = handles[MetricDefs[i].var])
    /\ [](/\ created = Len(MetricDefs)
          /\ \A e, f \in registry : e.name = f.name => e.id = f.id)
    /\ [][reloads' # reloads =>
            (registry' = registry /\ handles' = handles /\ created' = created)]_vars

\* C14 witness: the registrations ran again twice, and a request was
\* counted afterwards.
C14_Witness ==
    /\ reloads >= 2
    /\ calls = 1
    /\ request_count["success"] = 1

\* C15: /health answers 200 with status ok whether the model is loaded or
\* not, model_loaded is the current value of the loaded flag, and the
\* request changes neither the model nor a metric.
C15_HealthAlwaysOk ==
    /\ [](probe_resp.endpoint = "health" =>
            probe_resp.status = 200 /\ probe_resp.body.status = "ok")
    /\ [][(probe_resp' # probe_resp /\ probe_resp'.endpoint = "health") =>
            /\ probe_resp'.body.model_loaded = loaded
            /\ loaded' = loaded /\ weights' = weights
            /\ model_loaded' = model_loaded
            /\ active_requests' = active_requests
            /\ request_count' = request_count
            /\ latency_count' = latency_count]_vars

\* C15 witness: /health has answered 200 with model_loaded false while the
\* model is not loaded and infer is rejected.
C15_Witness ==
    /\ ~loaded
    /\ returned[503] >= 1
    /\ probe_resp.endpoint = "health"
    /\ probe_resp.status = 200
    /\ probe_resp.body.model_loaded = FALSE

\* C17: no metric update is lost under interleaving: the gauge is the
\* number of increments less the number of decrements, the two counters
\* together count every call that has left its try body, and when all
\* calls have finished the counters have grown by the number of handled
\* calls and the gauge is back at its initial value.
C17_NoLostUpdate ==
    /\ active_requests = handled - (returned[200] + returned[500])
    /\ request_count["success"] + request_count["error"]
         = handled - Cardinality(CallsAt("try"))
    /\ InFlight = {} =>
         /\ request_count["success"] + request_count["error"] = handled
         /\ active_requests = 0

\* C17 witness: /metrics was read while two calls were in flight, and both
\* calls have finished and are counted.
C17_Witness ==
    /\ probe_resp.endpoint = "metrics"
    /\ probe_resp.body.inference_active_requests = 2
    /\ InFlight = {}
    /\ handled = 2
    /\ request_count["success"] + request_count["error"] = 2
    /\ active_requests = 0

====
